---- MODULE Spec2Model ----
(***************************************************************************)
(* A model of the stateful or algorithmic parts of the Python package      *)
(* manager GUI:                                                            *)
(*   - struttura/dependencies.py : PackageSpec, DependencyResolver         *)
(*     (requirement parser, installed-package lister, conflict checker)    *)
(*   - struttura/repository.py   : PackageRepository, RepositoryManager    *)
(*   - struttura/logger.py       : the log file and the exception hook     *)
(* Strings are sequences of one-character strings, so that the regular     *)
(* expressions of the parser are modelled by what they match.              *)
(***************************************************************************)
EXTENDS Integers, Sequences, FiniteSets, TLC

(* ------------------------------------------------------------------ *)
(* Bounds of the model                                                  *)
(* ------------------------------------------------------------------ *)
\* longest raw (unstructured) input string handed to parse_requirement
MaxRawLen == 3
\* most specifiers in a well-formed requirement string
MaxSpecs == 2
\* most extras in a well-formed requirement string
MaxExtras == 2

(* ------------------------------------------------------------------ *)
(* State                                                                *)
(* ------------------------------------------------------------------ *)
\* DependencyResolver.parse_requirement
VARIABLES
    parse_pc,       \* position inside parse_requirement
    parse_input,    \* the argument of the outermost call: its text, the form
                    \* name[extras]specifiers it was written in (if so), and
                    \* the pieces it was put together from
    requirement,    \* local `requirement`
    extras,         \* local `extras`
    specifiers,     \* local `specifiers`
    name,           \* local `name`
    iterations,     \* completed iterations of the `while True` loop
    parse_result,   \* what the call returned or raised
    phase,          \* 1: parsing the input, 2: parsing str() of the first
                    \* result, 3: str() of a PackageSpec the caller built
    first_result,   \* the PackageSpec of phase 1
    rendered        \* str(first_result)

parse_vars == <<parse_pc, parse_input, requirement, extras, specifiers, name,
                iterations, parse_result, phase, first_result, rendered>>

\* DependencyResolver.resolve_dependencies, check_conflicts, get_installed_packages
VARIABLES
    res_pc,         \* position inside resolve_dependencies / its caller
    entry,          \* the method the caller invoked
    calls,          \* calls started so far
    temp_req_file,  \* whether temp_requirements.txt exists on disk
    venv_dir,       \* whether the directory temp_venv exists on disk
    locals_bound,   \* the local names bound so far ('x' in locals())
    install,        \* the completed pip install run (returncode, stderr)
    exc,            \* the exception travelling to the except clause
    outcome,        \* what the caller got: a returned value or an exception
    steps,          \* the external steps of the current call, in order
    listed,         \* result of the last direct get_installed_packages call
    errors_logged   \* number of logger.error calls of get_installed_packages

res_vars == <<res_pc, entry, calls, temp_req_file, venv_dir, locals_bound,
              install, exc, outcome, steps, listed, errors_logged>>

\* RepositoryManager
VARIABLES
    repositories,   \* RepositoryManager.repositories: name -> PackageRepository
    config_file,    \* content of repositories.json
    repo_ret,       \* the last call: method, argument, returned value, exception
    save_failures,  \* failed writes so far
    dialog          \* the RepositoryDialog of the repository frame

repo_vars == <<repositories, config_file, repo_ret, save_failures, dialog>>

\* logger.py
VARIABLES
    log_file,       \* traceback.log: the pieces of text written, in file order
    log_lock,       \* _log_lock: "free" or the thread that holds it
    log_pc,         \* per thread, its position inside the logging call
    log_frame,      \* per thread, the running call and the writes it has left
    log_buffer,     \* per thread, text written to the open file, not flushed
    excepthook,     \* sys.excepthook
    setup_called,   \* setup_global_exception_logging was called in this run
    now,            \* the time the clock gave last
    log_calls       \* every logging call and uncaught exception, in call order

log_vars == <<log_file, log_lock, log_pc, log_frame, log_buffer, excepthook,
              setup_called, now, log_calls>>

vars == <<parse_vars, res_vars, repo_vars, log_vars>>

(* ------------------------------------------------------------------ *)
(* Characters                                                           *)
(* ------------------------------------------------------------------ *)
Letters == {"a", "A"}
Digits == {"1"}
AlNum == Letters \cup Digits
\* the letters outside ASCII that [A-Z] matches under re.IGNORECASE, because
\* they fold to an ASCII letter (U+0130, U+0131, U+017F, U+212A); here the
\* one character KELVIN SIGN, U+212A
CaseFolded == {"KELVIN"}
\* what \s matches and str.strip() removes
Whitespace == {" "}
\* every character the model feeds to the parser
Alphabet == AlNum \cup CaseFolded \cup Whitespace \cup
            {".", "-", "_", "[", "]", ",", ";", "<", ">", "=", "!", "~"}

\* all strings over S of length at most n
StringsUpTo(S, n) == UNION {[1..k -> S] : k \in 0..n}

RECURSIVE Join(_, _)
\* sep.join(parts)
Join(parts, sep) ==
    IF parts = <<>> THEN <<>>
    ELSE IF Len(parts) = 1 THEN parts[1]
    ELSE parts[1] \o sep \o Join(Tail(parts), sep)

\* number of leading characters of s that are in S
LeadingRun(s, S) ==
    IF \A i \in 1..Len(s) : s[i] \in S THEN Len(s)
    ELSE (CHOOSE i \in 1..Len(s) :
              s[i] \notin S /\ \A j \in 1..(i-1) : s[j] \in S) - 1

\* number of trailing characters of s that are in S
TrailingRun(s, S) ==
    IF \A i \in 1..Len(s) : s[i] \in S THEN Len(s)
    ELSE Len(s) - (CHOOSE i \in 1..Len(s) :
              s[i] \notin S /\ \A j \in (i+1)..Len(s) : s[j] \in S)

\* str.strip(): leading and trailing whitespace removed
Strip(s) ==
    IF \A i \in 1..Len(s) : s[i] \in Whitespace THEN <<>>
    ELSE SubSeq(s, LeadingRun(s, Whitespace) + 1,
                   Len(s) - TrailingRun(s, Whitespace))

RECURSIVE Split(_, _)
\* str.split(sep) for a one-character separator: empty fields are kept
Split(s, sep) ==
    IF \A i \in 1..Len(s) : s[i] # sep THEN <<s>>
    ELSE LET k == CHOOSE i \in 1..Len(s) :
                      s[i] = sep /\ \A j \in 1..(i-1) : s[j] # sep
         IN  <<SubSeq(s, 1, k-1)>> \o Split(SubSeq(s, k+1, Len(s)), sep)

\* s[len(p):] starts with p
StartsWith(s, p) == Len(s) >= Len(p) /\ SubSeq(s, 1, Len(p)) = p

(* ------------------------------------------------------------------ *)
(* PackageSpec and the regular expressions of DependencyResolver        *)
(* ------------------------------------------------------------------ *)
\* PackageSpec(name, specifiers, extras); a specifier is <<operator, version>>
PackageSpec(n, specs, ex) ==
    [kind |-> "PackageSpec", name |-> n, specifiers |-> specs, extras |-> ex]

\* the exception parse_requirement raises
ValueError(msg) == [kind |-> "ValueError", msg |-> msg]

\* no result yet
NoResult == [kind |-> "none"]

\* __str__ with ''.join in place of ','.join for the specifiers
PackageSpecStrUnseparated(spec) ==
    spec.name
    \o (IF spec.extras # <<>>
        THEN <<"[">> \o Join(spec.extras, <<",">>) \o <<"]">>
        ELSE <<>>)
    \o (IF spec.specifiers # <<>>
        THEN Join([i \in 1..Len(spec.specifiers) |->
                      spec.specifiers[i][1] \o spec.specifiers[i][2]], <<>>)
        ELSE <<>>)

\* PackageSpec.__str__, lines 20-27
PackageSpecStr(spec) ==
    spec.name
    \o (IF spec.extras # <<>>
        THEN <<"[">> \o Join(spec.extras, <<",">>) \o <<"]">>
        ELSE <<>>)
    \o (IF spec.specifiers # <<>>
        THEN Join([i \in 1..Len(spec.specifiers) |->
                      spec.specifiers[i][1] \o spec.specifiers[i][2]], <<",">>)
        ELSE <<>>)

\* what the class [A-Z0-9] of NAME_RE matches: the pattern is compiled with
\* re.IGNORECASE and without re.ASCII
NameAlNum == AlNum \cup CaseFolded

\* the characters NAME_RE allows inside a name: [A-Z0-9._-]
NameChars == NameAlNum \cup {".", "_", "-"}

\* NAME_RE without its closing $: only the start of the name is checked
NameReMatchUnanchored(n) == Len(n) >= 1 /\ n[1] \in NameAlNum

\* NAME_RE.match(name): ^([A-Z0-9]|[A-Z0-9][A-Z0-9._-]*[A-Z0-9])$ , IGNORECASE
NameReMatch(n) ==
    /\ Len(n) >= 1
    /\ n[1] \in NameAlNum
    /\ n[Len(n)] \in NameAlNum
    /\ \A i \in 1..Len(n) : n[i] \in NameChars

\* the alternation of VERSION_SPECIFIER_RE, in the order it is written
OperatorAlternatives ==
    << <<"~", "=">>, <<"=", "=">>, <<"!", "=">>, <<"<", "=">>, <<">", "=">>,
       <<"<">>, <<">">>, <<"=", "=", "=">>, <<"!", "=", "=">> >>

\* the characters [^,;\s] of a version
IsVersionChar(c) == c \notin ({",", ";"} \cup Whitespace)

\* one alternative of VERSION_SPECIFIER_RE tried at the start of s:
\* the operator, \s* and ([^,;\s]+), both greedy
AlternativeMatch(s, op) ==
    LET rest1 == SubSeq(s, Len(op) + 1, Len(s))
        ws    == LeadingRun(rest1, Whitespace)
        rest2 == SubSeq(rest1, ws + 1, Len(rest1))
        vlen  == LeadingRun(rest2, {c \in Alphabet : IsVersionChar(c)})
    IN  IF StartsWith(s, op) /\ vlen >= 1
        THEN [matched |-> TRUE, op |-> op, version |-> SubSeq(rest2, 1, vlen),
              start |-> 0, end |-> Len(op) + ws + vlen]
        ELSE [matched |-> FALSE]

\* VERSION_SPECIFIER_RE.search(s): the pattern starts with ^ and the flags do
\* not include MULTILINE, so the only candidate position is the start of s;
\* the first alternative that lets the whole pattern match wins
VersionSpecifierReSearch(s) ==
    LET ok == {k \in 1..Len(OperatorAlternatives) :
                   AlternativeMatch(s, OperatorAlternatives[k]).matched}
    IN  IF ok = {} THEN [matched |-> FALSE]
        ELSE AlternativeMatch(s, OperatorAlternatives[
                 CHOOSE k \in ok : \A j \in ok : k <= j])

\* EXTRA_RE.search(s): ^\s*\[(.*?)\] , anchored at the start of s; the lazy
\* group ends at the first closing bracket
ExtraReSearch(s) ==
    LET ws == LeadingRun(s, Whitespace)
        closing == {j \in (ws + 2)..Len(s) : s[j] = "]"}
    IN  IF ws + 1 <= Len(s) /\ s[ws + 1] = "[" /\ closing # {}
        THEN LET j == CHOOSE j \in closing : \A k \in closing : j <= k
             IN  [matched |-> TRUE, group1 |-> SubSeq(s, ws + 2, j - 1),
                  start |-> 0, end |-> j]
        ELSE [matched |-> FALSE]

\* [e.strip() for e in group1.split(',') if e.strip()]
ExtrasOf(group1) ==
    LET stripped == [i \in 1..Len(Split(group1, ",")) |->
                        Strip(Split(group1, ",")[i])]
    IN  SelectSeq(stripped, LAMBDA e : e # <<>>)

(* ------------------------------------------------------------------ *)
(* Inputs of parse_requirement                                          *)
(* ------------------------------------------------------------------ *)
\* well-formed pieces of a requirement string
FormNames == {<<"a">>, <<"A", "-", "1">>}
FormExtraNames == {<<"a">>, <<"1">>}
FormVersions == {<<"1", ".", "1">>}
FormOperators == {OperatorAlternatives[k] : k \in 1..Len(OperatorAlternatives)}
FormSpecifiers == {<<op, v>> : op \in FormOperators, v \in FormVersions}

\* a requirement of the form name[extra1,extra2]op1ver1,op2ver2
Forms ==
    {[name |-> n, extras |-> ex, specifiers |-> sp] :
        n \in FormNames,
        ex \in StringsUpTo(FormExtraNames, MaxExtras),
        sp \in StringsUpTo(FormSpecifiers, MaxSpecs)}

\* the requirement string a form is written as
FormText(f) ==
    f.name
    \o (IF f.extras # <<>>
        THEN <<"[">> \o Join(f.extras, <<",">>) \o <<"]">> ELSE <<>>)
    \o Join([i \in 1..Len(f.specifiers) |->
                f.specifiers[i][1] \o f.specifiers[i][2]], <<",">>)

\* a raw string carries no form
NoForm == [name |-> <<>>, extras |-> <<>>, specifiers |-> <<>>]

\* the same pieces written extras first, then the specifiers, a space, the name
PrefixText(f) ==
    (IF f.extras # <<>>
     THEN <<"[">> \o Join(f.extras, <<",">>) \o <<"]">> ELSE <<>>)
    \o Join([i \in 1..Len(f.specifiers) |->
                f.specifiers[i][1] \o f.specifiers[i][2]], <<",">>)
    \o <<" ">> \o f.name

\* the inputs of the model, in three families: all short strings, the
\* well-formed strings, and the strings with the name written last
InputFamilies == {"raw", "form", "prefix"}
Inputs(family) ==
    IF family = "raw"
    THEN {[text |-> t, form |-> NoForm, pieces |-> NoForm] :
             t \in StringsUpTo(Alphabet, MaxRawLen)}
    ELSE IF family = "form"
    THEN {[text |-> FormText(f), form |-> f, pieces |-> f] : f \in Forms}
    ELSE {[text |-> PrefixText(f), form |-> NoForm, pieces |-> f] : f \in Forms}

ParseInit ==
    /\ parse_pc = "idle"
    /\ parse_input = [text |-> <<>>, form |-> NoForm, pieces |-> NoForm]
    /\ requirement = <<>>
    /\ extras = <<>>
    /\ specifiers = <<>>
    /\ name = <<>>
    /\ iterations = 0
    /\ parse_result = NoResult
    /\ phase = 1
    /\ first_result = NoResult
    /\ rendered = <<>>

\* parse_requirement, lines 57-59: strip, reject the empty string
ParseEnter(text) ==
    /\ requirement' = Strip(text)
    /\ extras' = <<>>
    /\ specifiers' = <<>>
    /\ name' = <<>>
    /\ iterations' = 0
    /\ IF Strip(text) = <<>>
       THEN /\ parse_result' = ValueError("Empty requirement string")
            /\ parse_pc' = "done"
       ELSE /\ parse_result' = NoResult
            /\ parse_pc' = "extras"

\* a caller calls parse_requirement(text)
ParseCall ==
    /\ parse_pc = "idle"
    /\ \E family \in InputFamilies : \E inp \in Inputs(family) :
          /\ parse_input' = inp
          /\ ParseEnter(inp.text)
    /\ UNCHANGED <<phase, first_result, rendered>>
    /\ UNCHANGED <<res_vars, repo_vars, log_vars>>

\* parse_requirement, lines 61-66: extract extras if present
ParseExtras ==
    /\ parse_pc = "extras"
    /\ LET m == ExtraReSearch(requirement)
       IN  IF m.matched
           THEN /\ extras' = ExtrasOf(m.group1)
                /\ requirement' = SubSeq(requirement, 1, m.start)
                                  \o SubSeq(requirement, m.end + 1, Len(requirement))
           ELSE UNCHANGED <<extras, requirement>>
    /\ parse_pc' = "loop"
    /\ UNCHANGED <<parse_input, specifiers, name, iterations, parse_result,
                   phase, first_result, rendered>>
    /\ UNCHANGED <<res_vars, repo_vars, log_vars>>

\* the loop without line 81: the matched part stays in the string
ParseLoopKeepingMatch ==
    /\ parse_pc = "loop"
    /\ LET m == VersionSpecifierReSearch(requirement)
       IN  IF ~m.matched
           THEN /\ parse_pc' = "validate"
                /\ UNCHANGED <<specifiers, requirement, iterations>>
           ELSE /\ specifiers' = Append(specifiers, <<m.op, m.version>>)
                /\ requirement' = requirement
                /\ iterations' = iterations + 1
                /\ parse_pc' = "loop"
    /\ UNCHANGED <<parse_input, extras, name, parse_result,
                   phase, first_result, rendered>>
    /\ UNCHANGED <<res_vars, repo_vars, log_vars>>

\* parse_requirement, lines 70-81: one pass of the `while True` loop
ParseLoop ==
    /\ parse_pc = "loop"
    /\ LET m == VersionSpecifierReSearch(requirement)
       IN  IF ~m.matched
           THEN /\ parse_pc' = "validate"
                /\ UNCHANGED <<specifiers, requirement, iterations>>
           ELSE /\ specifiers' = Append(specifiers, <<m.op, m.version>>)
                /\ requirement' = SubSeq(requirement, 1, m.start)
                                  \o SubSeq(requirement, m.end + 1, Len(requirement))
                /\ iterations' = iterations + 1
                /\ parse_pc' = "loop"
    /\ UNCHANGED <<parse_input, extras, name, parse_result,
                   phase, first_result, rendered>>
    /\ UNCHANGED <<res_vars, repo_vars, log_vars>>

\* line 85 written as `if name and not self.NAME_RE.match(name)`
NameRejectedUnlessEmpty(n) == n # <<>> /\ ~NameReMatch(n)

\* `if not name or not self.NAME_RE.match(name)`, line 85
NameRejected(n) == n = <<>> \/ ~NameReMatch(n)

\* parse_requirement, lines 83-88: the rest is the name; validate and return
ParseValidate ==
    /\ parse_pc = "validate"
    /\ name' = Strip(requirement)
    /\ parse_result' =
          IF NameRejected(Strip(requirement))
          THEN ValueError("Invalid package name")
          ELSE PackageSpec(Strip(requirement), specifiers, extras)
    /\ parse_pc' = "done"
    /\ UNCHANGED <<parse_input, requirement, extras, specifiers, iterations,
                   phase, first_result, rendered>>
    /\ UNCHANGED <<res_vars, repo_vars, log_vars>>

\* the round trip: str() of the returned PackageSpec is parsed again
ParseRendered ==
    /\ parse_pc = "done"
    /\ phase = 1
    /\ parse_result.kind = "PackageSpec"
    /\ first_result' = parse_result
    /\ rendered' = PackageSpecStr(parse_result)
    /\ phase' = 2
    /\ ParseEnter(PackageSpecStr(parse_result))
    /\ UNCHANGED parse_input
    /\ UNCHANGED <<res_vars, repo_vars, log_vars>>

\* a caller builds a PackageSpec from its three fields and renders it with
\* str()
StrCall ==
    /\ parse_pc = "idle"
    /\ \E f \in Forms :
          /\ first_result' = PackageSpec(f.name, f.specifiers, f.extras)
          /\ rendered' = PackageSpecStr(PackageSpec(f.name, f.specifiers,
                                                   f.extras))
    /\ phase' = 3
    /\ parse_pc' = "done"
    /\ UNCHANGED <<parse_input, requirement, extras, specifiers, name,
                   iterations, parse_result>>
    /\ UNCHANGED <<res_vars, repo_vars, log_vars>>

ParseNext ==
    \/ ParseCall
    \/ ParseExtras
    \/ ParseLoop
    \/ ParseValidate
    \/ ParseRendered
    \/ StrCall


(* ------------------------------------------------------------------ *)
(* dependencies.py: module namespace, pip list, the conflict checker    *)
(* ------------------------------------------------------------------ *)
\* most calls of resolve_dependencies / check_conflicts in one run
MaxCalls == 2
\* most entries in the output of pip list
MaxPkgs == 1

\* the module-level names dependencies.py binds by its import statements
ModuleImports ==
    {"re", "sys", "subprocess", "logging",
     "Dict", "List", "Set", "Tuple", "Optional", "NamedTuple", "Path"}

\* evaluating a global name that the module does not bind raises NameError
NameDefined(n) == n \in ModuleImports

Raise(type, text) == [kind |-> "raise", type |-> type, text |-> text]
Return(value) == [kind |-> "return", value |-> value]
NoOutcome == [kind |-> "none"]

\* the text of the NameError for an unbound global
NameErrorOf(n) == Raise("NameError", <<"name", n, "is", "not", "defined">>)

\* one entry of the JSON array pip list prints: keys may be missing
PipEntries ==
    {[has_name |-> TRUE, name |-> "Pkg", has_version |-> TRUE, version |-> "1.0"],
     [has_name |-> TRUE, name |-> "pkg", has_version |-> TRUE, version |-> "2.0"],
     [has_name |-> FALSE, name |-> "", has_version |-> TRUE, version |-> "1.0"]}

\* what running `python -m pip list --format=json` can do
PipListRuns ==
    {[status |-> "cannot_start", json_valid |-> FALSE, entries |-> <<>>],
     [status |-> "nonzero", json_valid |-> FALSE, entries |-> <<>>],
     [status |-> "zero", json_valid |-> FALSE, entries |-> <<>>]}
    \cup {[status |-> "zero", json_valid |-> TRUE, entries |-> e] :
             e \in StringsUpTo(PipEntries, MaxPkgs)}

\* str.lower() on the package names of the model
Lower(n) == IF n = "Pkg" THEN "pkg" ELSE n

RECURSIVE BuildPackages(_, _)
\* lines 104-106: packages[pkg['name'].lower()] = pkg['version'], in order;
\* a missing key raises KeyError
BuildPackages(entries, packages) ==
    IF entries = <<>> THEN Return(packages)
    ELSE LET e == Head(entries)
         IN  IF ~e.has_name THEN Raise("KeyError", <<"name">>)
             ELSE IF ~e.has_version THEN Raise("KeyError", <<"version">>)
             ELSE BuildPackages(Tail(entries),
                      [k \in DOMAIN packages \cup {Lower(e.name)} |->
                          IF k = Lower(e.name) THEN e.version ELSE packages[k]])

\* the empty dict
EmptyMap == [k \in {} |-> ""]

\* get_installed_packages, lines 96-111. The result carries whether
\* logger.error was called. The body and the except clause both evaluate the
\* global `json`.
GetInstalledPackages(run) ==
    LET body ==
            IF run.status = "cannot_start"
            THEN Raise("FileNotFoundError", <<"python">>)
            ELSE IF run.status = "nonzero"
            THEN Raise("CalledProcessError", <<"non-zero", "exit", "status">>)
            ELSE IF ~NameDefined("json") THEN NameErrorOf("json")
            ELSE IF ~run.json_valid
            THEN Raise("JSONDecodeError", <<"Expecting", "value">>)
            ELSE BuildPackages(run.entries, EmptyMap)
    IN  IF body.kind = "return" THEN [outcome |-> body, logged |-> FALSE]
        \* line 109: the except clause evaluates json.JSONDecodeError
        ELSE IF ~NameDefined("json")
        THEN [outcome |-> NameErrorOf("json"), logged |-> FALSE]
        ELSE IF body.type \in {"CalledProcessError", "JSONDecodeError"}
        THEN [outcome |-> Return(EmptyMap), logged |-> TRUE]
        ELSE [outcome |-> body, logged |-> FALSE]

\* error texts pip install can print, as words
ConflictText(pkg) ==
    <<"ERROR:", "Cannot", "install", pkg, "because", "these", "package",
      "versions", "have", "conflicting", "dependencies">>
OtherText == <<"ERROR:", "No", "matching", "distribution", "found">>
StderrTexts == {ConflictText("a"), OtherText}

\* what running pip install in the environment can do
InstallRuns ==
    {[status |-> "cannot_start", stderr |-> <<>>],
     [status |-> "zero", stderr |-> <<>>]}
    \cup {[status |-> "nonzero", stderr |-> t] : t \in StderrTexts}

\* what running `python -m venv temp_venv` can do (check=True)
VenvRuns ==
    {[status |-> "zero", dir_created |-> TRUE],
     [status |-> "nonzero", dir_created |-> TRUE],
     [status |-> "nonzero", dir_created |-> FALSE]}

\* the words after "Cannot install" of the pattern in check_conflicts
ConflictTail ==
    <<"because", "these", "package", "versions", "have", "conflicting",
      "dependencies">>

\* re.search(r"Cannot install ([^\s]+) because these package versions have
\* conflicting dependencies", error_msg): the first place it matches
ConflictSearch(text) ==
    LET hits == {i \in 1..Len(text) :
                    /\ i + 2 + Len(ConflictTail) <= Len(text)
                    /\ text[i] = "Cannot"
                    /\ text[i+1] = "install"
                    /\ SubSeq(text, i + 3, i + 2 + Len(ConflictTail)) = ConflictTail}
    IN  IF hits = {} THEN [matched |-> FALSE]
        ELSE [matched |-> TRUE,
              group1 |-> text[(CHOOSE i \in hits : \A j \in hits : i <= j) + 2]]

\* check_conflicts, lines 229-244, applied to what resolve_dependencies did
CheckConflicts(resolved) ==
    IF resolved.kind = "return" THEN Return(<<>>)
    ELSE IF resolved.type # "ValueError" THEN resolved
    ELSE LET m == ConflictSearch(resolved.text)
         IN  IF m.matched
             THEN Return(<< <<m.group1, "multiple",
                              <<"Version", "conflict", "for", m.group1>> >> >>)
             ELSE Return(<<>>)

NoInstall == [status |-> "none", stderr |-> <<>>]

ResolveInit ==
    /\ res_pc = "idle"
    /\ entry = "none"
    /\ calls = 0
    /\ temp_req_file = FALSE
    /\ venv_dir = FALSE
    /\ locals_bound = {}
    /\ install = NoInstall
    /\ exc = NoOutcome
    /\ outcome = NoOutcome
    /\ steps = <<>>
    /\ listed = NoOutcome
    /\ errors_logged = 0

\* a caller invokes check_conflicts(requirements) or
\* resolve_dependencies(requirements)
ResolveCall ==
    /\ res_pc \in {"idle", "done"}
    /\ calls < MaxCalls
    /\ calls' = calls + 1
    /\ \E e \in {"check_conflicts", "resolve_dependencies"} : entry' = e
    /\ res_pc' = "write_req"
    /\ locals_bound' = {}
    /\ install' = NoInstall
    /\ exc' = NoOutcome
    /\ outcome' = NoOutcome
    /\ steps' = <<>>
    /\ UNCHANGED <<temp_req_file, venv_dir, listed, errors_logged>>
    /\ UNCHANGED <<parse_vars, repo_vars, log_vars>>

\* lines 178-181: bind temp_req_file, open it for writing, write the lines
WriteRequirements ==
    /\ res_pc = "write_req"
    /\ locals_bound' = locals_bound \cup {"temp_req_file"}
    /\ steps' = Append(steps, "WRITE_REQ")
    /\ \E opened \in BOOLEAN :
          IF opened
          THEN /\ temp_req_file' = TRUE
               /\ res_pc' = "create_env"
               /\ exc' = NoOutcome
          ELSE /\ temp_req_file' = temp_req_file
               /\ res_pc' = "except"
               /\ exc' = Raise("PermissionError", <<"Permission", "denied">>)
    /\ UNCHANGED <<entry, calls, venv_dir, install, outcome, listed,
                   errors_logged>>
    /\ UNCHANGED <<parse_vars, repo_vars, log_vars>>

\* lines 184-188: bind venv_dir, run python -m venv with check=True
CreateEnv ==
    /\ res_pc = "create_env"
    /\ locals_bound' = locals_bound \cup {"venv_dir"}
    /\ steps' = Append(steps, "CREATE_ENV")
    /\ \E run \in VenvRuns :
          /\ venv_dir' = (venv_dir \/ run.dir_created)
          /\ IF run.status = "zero"
             THEN /\ res_pc' = "install"
                  /\ exc' = NoOutcome
             ELSE /\ res_pc' = "except"
                  /\ exc' = Raise("CalledProcessError",
                                  <<"non-zero", "exit", "status">>)
    /\ UNCHANGED <<entry, calls, temp_req_file, install, outcome, listed,
                   errors_logged>>
    /\ UNCHANGED <<parse_vars, repo_vars, log_vars>>

\* lines 191-200: run the environment's pip install -r (no check=True)
Install ==
    /\ res_pc = "install"
    /\ steps' = Append(steps, "INSTALL")
    /\ \E run \in InstallRuns :
          IF run.status = "cannot_start"
          THEN /\ install' = install
               /\ res_pc' = "except"
               /\ exc' = Raise("FileNotFoundError", <<"pip">>)
          ELSE /\ install' = run
               /\ res_pc' = "cleanup"
               /\ exc' = NoOutcome
    /\ UNCHANGED <<entry, calls, temp_req_file, venv_dir, locals_bound,
                   outcome, listed, errors_logged>>
    /\ UNCHANGED <<parse_vars, repo_vars, log_vars>>

\* lines 203-210, seen from the try block: the values are
\* <<requirements file exists, environment exists, what the block does next>>
\* where the last is an exception for the except clause or a returned value
CleanUp(file, dir, run, list_run) ==
    IF ~file
    THEN <<file, dir, Raise("FileNotFoundError", <<"temp_requirements.txt">>)>>
    ELSE IF ~NameDefined("shutil")
    THEN <<FALSE, dir, NameErrorOf("shutil")>>
    ELSE IF run.status # "zero"
    THEN <<FALSE, FALSE,
           Raise("ValueError",
                 <<"Failed", "to", "resolve", "dependencies:">> \o run.stderr)>>
    ELSE <<FALSE, FALSE, GetInstalledPackages(list_run).outcome>>

\* lines 203-210: unlink the file, remove the tree, raise or return
CleanUpAndReturn ==
    /\ res_pc = "cleanup"
    /\ steps' = Append(steps, "CLEANUP")
    /\ \E list_run \in PipListRuns :
          LET r == CleanUp(temp_req_file, venv_dir, install, list_run)
          IN  /\ temp_req_file' = r[1]
              /\ venv_dir' = r[2]
              /\ IF r[3].kind = "raise"
                 THEN /\ exc' = r[3]
                      /\ res_pc' = "except"
                      /\ outcome' = outcome
                 ELSE /\ exc' = NoOutcome
                      /\ res_pc' = "report"
                      /\ outcome' = r[3]
    /\ UNCHANGED <<entry, calls, locals_bound, install, listed, errors_logged>>
    /\ UNCHANGED <<parse_vars, repo_vars, log_vars>>

\* lines 212-218, the except clause: the values are <<requirements file
\* exists, environment exists, the exception that leaves the method>>
ExceptClause(file, dir, bound, e) ==
    LET file1 == IF "temp_req_file" \in bound /\ file THEN FALSE ELSE file
    IN  IF "venv_dir" \in bound /\ dir
        THEN IF NameDefined("shutil")
             THEN <<file1, FALSE,
                    Raise("ValueError",
                          <<"Dependency", "resolution", "failed:">> \o e.text)>>
             ELSE <<file1, dir, NameErrorOf("shutil")>>
        ELSE <<file1, dir,
               Raise("ValueError",
                     <<"Dependency", "resolution", "failed:">> \o e.text)>>

\* lines 212-218: clean up on error and raise
HandleException ==
    /\ res_pc = "except"
    /\ steps' = Append(steps, "EXCEPT")
    /\ LET r == ExceptClause(temp_req_file, venv_dir, locals_bound, exc)
       IN  /\ temp_req_file' = r[1]
           /\ venv_dir' = r[2]
           /\ outcome' = r[3]
    /\ exc' = NoOutcome
    /\ res_pc' = "report"
    /\ UNCHANGED <<entry, calls, locals_bound, install, listed, errors_logged>>
    /\ UNCHANGED <<parse_vars, repo_vars, log_vars>>

\* the result reaches the caller: directly, or through check_conflicts
\* (lines 229-244)
Report ==
    /\ res_pc = "report"
    /\ steps' = Append(steps, "REPORT")
    /\ outcome' = IF entry = "check_conflicts"
                  THEN CheckConflicts(outcome) ELSE outcome
    /\ res_pc' = "done"
    /\ UNCHANGED <<entry, calls, temp_req_file, venv_dir, locals_bound,
                   install, exc, listed, errors_logged>>
    /\ UNCHANGED <<parse_vars, repo_vars, log_vars>>

\* a caller invokes get_installed_packages() directly
ListInstalled ==
    /\ res_pc \in {"idle", "done"}
    /\ errors_logged < MaxCalls
    /\ \E run \in PipListRuns :
          LET r == GetInstalledPackages(run)
          IN  /\ listed' = [run |-> run, kind |-> r.outcome.kind,
                            result |-> r.outcome, logged |-> r.logged]
              /\ errors_logged' = errors_logged + (IF r.logged THEN 1 ELSE 0)
    /\ UNCHANGED <<res_pc, entry, calls, temp_req_file, venv_dir, locals_bound,
                   install, exc, outcome, steps>>
    /\ UNCHANGED <<parse_vars, repo_vars, log_vars>>

ResolveNext ==
    \/ ResolveCall
    \/ WriteRequirements
    \/ CreateEnv
    \/ Install
    \/ CleanUpAndReturn
    \/ HandleException
    \/ Report
    \/ ListInstalled

(* ------------------------------------------------------------------ *)
(* repository.py: PackageRepository and RepositoryManager               *)
(* ------------------------------------------------------------------ *)
\* most failed writes of repositories.json in one run
MaxSaveFailures == 1

None == "None"
RepoNames == {"pypi", "a", "b"}
Urls == {"https://pypi.org/simple"}
\* (username, password) of the repositories callers create
Credentials == {<<None, None>>, <<"user", "secret">>}

\* PackageRepository.__init__, lines 18-33
PackageRepository(n, url, username, password, is_default) ==
    [name |-> n, url |-> url, username |-> username, password |-> password,
     is_default |-> is_default]

\* every repository object a caller can hand to add_repository
AllRepositories ==
    {PackageRepository(n, u, c[1], c[2], d) :
        n \in RepoNames, u \in Urls, c \in Credentials, d \in BOOLEAN}

\* to_dict with the password among the fields written
ToDictWithPassword(repo) ==
    [name |-> repo.name, url |-> repo.url, username |-> repo.username,
     password |-> repo.password, is_default |-> repo.is_default]

\* PackageRepository.to_dict, lines 45-53: the password is left out
ToDict(repo) ==
    [name |-> repo.name, url |-> repo.url, username |-> repo.username,
     is_default |-> repo.is_default]

\* PackageRepository.from_dict, lines 55-64
FromDict(data) ==
    PackageRepository(data.name, data.url, data.username, None, data.is_default)

\* repositories.json: absent, not parseable as JSON, or a JSON object
NoData == [n \in {} |-> 0]
Missing == [state |-> "missing", data |-> NoData]
Corrupt == [state |-> "corrupt", data |-> NoData]
Json(data) == [state |-> "json", data |-> data]

\* lines 112-115: the data save_repositories writes
SavedData(repos) == [n \in DOMAIN repos |-> ToDict(repos[n])]

\* how a write of repositories.json can go
SaveWays == {"ok", "makedirs_fails", "open_fails", "dump_fails"}

\* save_repositories, lines 108-119, by how the write goes:
\* <<the file afterwards, the exception that leaves the method, how>>.
\* _ensure_config_dir() is called before the try block.
SaveRepositories(repos, file, how) ==
    IF how = "makedirs_fails"
    THEN <<file, Raise("PermissionError", <<"config_dir">>), how>>
    ELSE IF how = "open_fails" THEN <<file, NoOutcome, how>>
    ELSE IF how = "dump_fails" THEN <<Corrupt, NoOutcome, how>>
    ELSE <<Json(SavedData(repos)), NoOutcome, how>>

\* a completed call: method, name argument, returned value ("True", "False",
\* "None"; "raised" when an exception left the method), that exception, and
\* how its save_repositories went ("none" when it saved nothing)
Called(op, n, saved, value) ==
    [op |-> op, name |-> n,
     value |-> IF saved[2] = NoOutcome THEN value ELSE "raised",
     raised |-> saved[2],
     save |-> saved[3]]

\* the ways a save may go, given the failures already spent
Ways == IF save_failures < MaxSaveFailures THEN SaveWays ELSE {"ok"}

Spend(how) == save_failures' = save_failures + (IF how = "ok" THEN 0 ELSE 1)

\* a method that returns without saving
NotSaved == <<Missing, NoOutcome, "none">>

\* the pypi entry _load_repositories adds, lines 103-106
PyPI == PackageRepository("pypi", "https://pypi.org/simple", None, None, TRUE)

\* `PackageRepository('', '')`, repository_ui.py line 25
BlankRepository == PackageRepository("", "", None, None, FALSE)

\* the application's RepositoryDialog: whether its window exists, its
\* `repository` attribute, its tk variables, the message box it showed last
\* and the handler that ran last
Dialog(open, repo, n, url, username, password, is_default, shown, handler) ==
    [open |-> open, repository |-> repo, name_var |-> n, url_var |-> url,
     username_var |-> username, password_var |-> password,
     default_var |-> is_default, shown |-> shown, handler |-> handler]

\* no dialog window: none was opened yet, or the last one was destroyed
Destroyed(handler) ==
    Dialog(FALSE, BlankRepository, <<>>, <<>>, <<>>, "", FALSE, "none", handler)

NoDialog == Destroyed("none")

\* a manager constructed over an empty configuration directory
RepoInit ==
    /\ repositories = [n \in {"pypi"} |-> PyPI]
    /\ config_file = Json(SavedData([n \in {"pypi"} |-> PyPI]))
    /\ repo_ret = Called("__init__", None, NotSaved, "None")
    /\ save_failures = 0
    /\ dialog = NoDialog

\* the last constructor call returned, so the application holds a manager
Constructed == ~(repo_ret.op = "__init__" /\ repo_ret.value = "raised")

\* self.repositories[repo.name] = repo
Store(repos, repo) ==
    [n \in DOMAIN repos \cup {repo.name} |->
        IF n = repo.name THEN repo ELSE repos[n]]

\* add_repository(repo), lines 127-128
AddRepository ==
    /\ Constructed
    /\ \E repo \in AllRepositories, how \in Ways :
          LET saved == SaveRepositories(Store(repositories, repo),
                                        config_file, how)
          IN  /\ repositories' = Store(repositories, repo)
              /\ config_file' = saved[1]
              /\ repo_ret' = Called("add_repository", repo.name, saved, "None")
              /\ Spend(how)
    /\ UNCHANGED <<parse_vars, res_vars, log_vars, dialog>>

\* line 139 without the guard on the name
RemovableAny(repos, n) == n \in DOMAIN repos

\* `name in self.repositories and name != 'pypi'`, line 139
Removable(repos, n) == n \in DOMAIN repos /\ n # "pypi"

\* `del self.repositories[name]`, line 140
Without(repos, n) == [m \in DOMAIN repos \ {n} |-> repos[m]]

\* remove_repository(name), lines 139-143
RemoveRepository ==
    /\ Constructed
    /\ \E n \in RepoNames, how \in Ways :
          IF Removable(repositories, n)
          THEN LET saved == SaveRepositories(Without(repositories, n),
                                             config_file, how)
               IN  /\ repositories' = Without(repositories, n)
                   /\ config_file' = saved[1]
                   /\ repo_ret' = Called("remove_repository", n, saved, "True")
                   /\ Spend(how)
          ELSE /\ repo_ret' = Called("remove_repository", n, NotSaved, "False")
               /\ UNCHANGED <<repositories, config_file, save_failures>>
    /\ UNCHANGED <<parse_vars, res_vars, log_vars, dialog>>

\* lines 187-192 without the loop that clears the flags
WithDefaultNotCleared(repos, n) ==
    [m \in DOMAIN repos |->
        [repos[m] EXCEPT !.is_default = (m = n) \/ repos[m].is_default]]

\* lines 187-192: clear every flag, then set the flag of `name`
WithDefault(repos, n) ==
    [m \in DOMAIN repos |-> [repos[m] EXCEPT !.is_default = (m = n)]]

\* set_default_repository without the test of lines 184-185: the flags are
\* cleared and the file is written whether or not the name is known
SetDefaultRepositoryUntested ==
    /\ Constructed
    /\ \E n \in RepoNames, how \in Ways :
          LET saved == SaveRepositories(WithDefault(repositories, n),
                                        config_file, how)
          IN  /\ repositories' = WithDefault(repositories, n)
              /\ config_file' = saved[1]
              /\ repo_ret' = Called("set_default_repository", n, saved,
                                    "True")
              /\ Spend(how)
    /\ UNCHANGED <<parse_vars, res_vars, log_vars, dialog>>

\* set_default_repository(name), lines 184-194
SetDefaultRepository ==
    /\ Constructed
    /\ \E n \in RepoNames, how \in Ways :
          IF n \notin DOMAIN repositories
          THEN /\ repo_ret' = Called("set_default_repository", n, NotSaved,
                                     "False")
               /\ UNCHANGED <<repositories, config_file, save_failures>>
          ELSE LET saved == SaveRepositories(WithDefault(repositories, n),
                                             config_file, how)
               IN  /\ repositories' = WithDefault(repositories, n)
                   /\ config_file' = saved[1]
                   /\ repo_ret' = Called("set_default_repository", n, saved,
                                         "True")
                   /\ Spend(how)
    /\ UNCHANGED <<parse_vars, res_vars, log_vars, dialog>>

\* get_default_repository, lines 162-165, as the names it can return ("None"
\* for no repository); dicts keep insertion order, which the model does not,
\* so any flagged repository may be the first one found
GetDefaultRepository(repos) ==
    IF \E n \in DOMAIN repos : repos[n].is_default
    THEN {n \in DOMAIN repos : repos[n].is_default}
    ELSE IF "pypi" \in DOMAIN repos THEN {"pypi"} ELSE {None}

\* lines 90-100: what _load_repositories reads from the file
Loaded(file) ==
    IF file.state # "json" THEN [n \in {} |-> PyPI]
    ELSE [n \in DOMAIN file.data |-> FromDict(file.data[n])]

\* lines 90-100 when the file may fail to open for reading: the except
\* clause leaves the collection empty
LoadedIf(readable, file) ==
    IF readable THEN Loaded(file) ELSE [n \in {} |-> PyPI]

\* _load_repositories without lines 103-106
ConstructAsLoaded ==
    /\ repositories' = Loaded(config_file)
    /\ repo_ret' = Called("__init__", None, NotSaved, "None")
    /\ UNCHANGED <<config_file, save_failures>>
    /\ UNCHANGED <<parse_vars, res_vars, log_vars, dialog>>

\* the application starts again: RepositoryManager.__init__, lines 78-81, and
\* _load_repositories, lines 89-106. When _ensure_config_dir() on line 89
\* raises, the constructor raises and no manager is built: `repositories`
\* keeps describing the manager there was, which nothing can call any more.
Construct ==
    /\ \E how \in Ways, readable \in BOOLEAN :
          IF how = "makedirs_fails"
          THEN /\ repo_ret' = Called("__init__", None,
                     <<config_file, Raise("PermissionError", <<"config_dir">>),
                       how>>, "None")
               /\ Spend(how)
               /\ UNCHANGED <<repositories, config_file>>
          ELSE LET repos == LoadedIf(readable, config_file)
               IN  IF "pypi" \in DOMAIN repos
                   THEN /\ repositories' = repos
                        /\ repo_ret' = Called("__init__", None, NotSaved,
                                              "None")
                        /\ UNCHANGED <<config_file, save_failures>>
                   ELSE LET saved == SaveRepositories(Store(repos, PyPI),
                                                      config_file, how)
                        IN  /\ repositories' = Store(repos, PyPI)
                            /\ config_file' = saved[1]
                            /\ repo_ret' = Called("__init__", None, saved,
                                                  "None")
                            /\ Spend(how)
    /\ UNCHANGED <<parse_vars, res_vars, log_vars, dialog>>

RepoNext ==
    \/ AddRepository
    \/ RemoveRepository
    \/ SetDefaultRepository
    \/ Construct

(* ------------------------------------------------------------------ *)
(* repository_ui.py: RepositoryDialog and the frame's add / edit buttons *)
(* ------------------------------------------------------------------ *)
\* what the user can leave in the name and URL entries
NameTexts == {<<>>, <<" ">>, <<" ", "a">>}
UrlTexts == {<<>>, <<" ">>, <<"https://pypi.org/simple", " ">>}
PasswordTexts == {"", "secret"}

RECURSIVE Concat(_)
\* the str made of the pieces of text
Concat(pieces) ==
    IF pieces = <<>> THEN "" ELSE pieces[1] \o Concat(Tail(pieces))

\* `x or None` for a str, lines 120-121
OrNone(text) == IF text = "" THEN None ELSE text

\* `x or ''` for an optional str, line 113
OrEmpty(value) == IF value = None THEN <<>> ELSE <<value>>

\* lines 124 and 128 testing the text as typed
FieldMissingAsTyped(text) == text = <<>>

\* `not name`, `not url` after .strip(), lines 118-119, 124 and 128
FieldMissing(text) == Strip(text) = <<>>

\* RepositoryDialog.__init__, lines 21-28 and 78, with _populate_fields,
\* lines 108-114: the password entry is left empty
NewDialog(repo, handler) ==
    Dialog(TRUE, repo, IF repo.name = "" THEN <<>> ELSE <<repo.name>>,
           IF repo.url = "" THEN <<>> ELSE <<repo.url>>,
           OrEmpty(repo.username), "", repo.is_default, "none", handler)

\* _on_add_repository, lines 259-266, up to wait_window()
OnAddRepository ==
    /\ Constructed
    /\ ~dialog.open
    /\ dialog' = NewDialog(BlankRepository, "_on_add_repository")
    /\ UNCHANGED <<repositories, config_file, repo_ret, save_failures>>
    /\ UNCHANGED <<parse_vars, res_vars, log_vars>>

\* _on_edit_repository, lines 268-286, up to wait_window(): the tree lists
\* the repositories of the manager
OnEditRepository ==
    /\ Constructed
    /\ ~dialog.open
    /\ \E n \in DOMAIN repositories :
          dialog' = NewDialog(repositories[n], "_on_edit_repository")
    /\ UNCHANGED <<repositories, config_file, repo_ret, save_failures>>
    /\ UNCHANGED <<parse_vars, res_vars, log_vars>>

\* the user dismisses any message box and edits the entries and the
\* checkbox, lines 47-83
EditFields ==
    /\ dialog.open
    /\ \E n \in NameTexts, url \in UrlTexts, password \in PasswordTexts,
          is_default \in BOOLEAN :
          dialog' = [dialog EXCEPT !.name_var = n, !.url_var = url,
                                   !.password_var = password,
                                   !.default_var = is_default,
                                   !.shown = "none", !.handler = "entries"]
    /\ UNCHANGED <<repositories, config_file, repo_ret, save_failures>>
    /\ UNCHANGED <<parse_vars, res_vars, log_vars>>

\* the cancel button, lines 89-93: command=self.destroy
Cancel ==
    /\ dialog.open
    /\ dialog' = Destroyed("destroy")
    /\ UNCHANGED <<repositories, config_file, repo_ret, save_failures>>
    /\ UNCHANGED <<parse_vars, res_vars, log_vars>>

\* RepositoryDialog._on_save, lines 116-144, with the on_save callback of
\* lines 261-263 (add_repository, then the frame reloads its tree). When
\* add_repository raises, line 144 is not reached and the window stays.
OnSave ==
    /\ dialog.open
    /\ IF FieldMissing(dialog.name_var)
       THEN /\ dialog' = [dialog EXCEPT !.shown = "name_required",
                                        !.handler = "_on_save"]
            /\ UNCHANGED <<repositories, config_file, repo_ret, save_failures>>
       ELSE IF FieldMissing(dialog.url_var)
       THEN /\ dialog' = [dialog EXCEPT !.shown = "url_required",
                                        !.handler = "_on_save"]
            /\ UNCHANGED <<repositories, config_file, repo_ret, save_failures>>
       ELSE \E how \in Ways :
              LET repo == PackageRepository(
                              Concat(Strip(dialog.name_var)),
                              Concat(Strip(dialog.url_var)),
                              OrNone(Concat(Strip(dialog.username_var))),
                              OrNone(dialog.password_var),
                              dialog.default_var)
                  saved == SaveRepositories(Store(repositories, repo),
                                            config_file, how)
              IN  /\ repositories' = Store(repositories, repo)
                  /\ config_file' = saved[1]
                  /\ repo_ret' = Called("add_repository", repo.name, saved,
                                        "None")
                  /\ Spend(how)
                  /\ dialog' = IF saved[2] = NoOutcome
                               THEN Destroyed("_on_save")
                               ELSE [dialog EXCEPT !.repository = repo,
                                                   !.handler = "_on_save"]
    /\ UNCHANGED <<parse_vars, res_vars, log_vars>>

DialogNext ==
    \/ OnAddRepository
    \/ OnEditRepository
    \/ EditFields
    \/ Cancel
    \/ OnSave

(* ------------------------------------------------------------------ *)
(* logger.py: _write_log, log_info, log_warning, log_error,             *)
(* log_exception, setup_global_exception_logging                        *)
(* ------------------------------------------------------------------ *)
\* most logging calls and uncaught exceptions in one behaviour
MaxLogCalls == 2
\* last value of the clock
MaxClock == 1

\* the main thread of the interpreter and one more thread
Threads == {"main", "worker"}
Messages == {"started", "failed"}
Exceptions == {[type |-> "ValueError", message |-> "test exception"]}

\* log_info, log_warning, log_error (lines 17-24): the level each one passes
LevelOf ==
    [log_info |-> "INFO", log_warning |-> "WARNING", log_error |-> "ERROR"]

\* datetime.datetime.now().strftime('%Y-%m-%d %H:%M:%S'), lines 11 and 28
Strftime(t) == ToString(t)

\* the f-string of line 12
LogEntry(timestamp, level, message) ==
    <<"[", timestamp, "] [", level, "] ", message, "\n">>

\* the f-string of line 31
ExceptionHeader(timestamp) ==
    <<"\n[", timestamp, "] [ERROR] ", "Uncaught exception:", "\n">>

\* what traceback.print_exception writes, line 32 (the stack frames left out)
PrintException(e) ==
    <<"Traceback (most recent call last):\n", e.type, ": ", e.message, "\n">>

\* open(LOG_FILE, 'w') instead of 'a': the file is emptied
OpenTruncate(file) == <<>>

\* open(LOG_FILE, 'a', encoding='utf-8'), lines 14 and 30: the content stays
\* and every write goes to the end
OpenAppend(file) == file

NoFrame == [call |-> 0, writes |-> <<>>]

LogInit ==
    /\ log_file = <<>>
    /\ log_lock = "free"
    /\ log_pc = [t \in Threads |-> "idle"]
    /\ log_frame = [t \in Threads |-> NoFrame]
    /\ log_buffer = [t \in Threads |-> <<>>]
    /\ excepthook = "default"
    /\ setup_called = FALSE
    /\ now = 0
    /\ log_calls = <<>>

\* the calls that have returned
Returned == {i \in 1..Len(log_calls) : log_calls[i].status = "returned"}

\* what datetime.datetime.now() can give: time does not run backwards
Clock == {c \in now..(now + 1) : c <= MaxClock}

\* a call begins on thread t at time c: its entry in the history, its frame
Begin(t, c, op, arg, via, writes) ==
    /\ log_pc[t] = "idle"
    /\ Len(log_calls) < MaxLogCalls
    /\ now' = c
    /\ log_calls' = Append(log_calls,
          [op |-> op, arg |-> arg, via |-> via, timestamp |-> Strftime(c),
           setup |-> (via = "uncaught" /\ setup_called),
           after |-> Returned, status |-> "running"])
    /\ log_frame' = [log_frame EXCEPT
          ![t] = [call |-> Len(log_calls) + 1, writes |-> writes]]
    /\ log_pc' = [log_pc EXCEPT ![t] = "acquire"]

\* log_info / log_warning / log_error(message) up to `with _log_lock`,
\* lines 11-12
LogMessage(t) ==
    /\ \E op \in DOMAIN LevelOf, m \in Messages, c \in Clock :
          Begin(t, c, op, [type |-> "None", message |-> m], "call",
                <<LogEntry(Strftime(c), LevelOf[op], m)>>)
    /\ UNCHANGED <<log_file, log_lock, log_buffer, excepthook, setup_called>>
    /\ UNCHANGED <<parse_vars, res_vars, repo_vars>>

\* log_exception(exc_type, exc_value, exc_tb) called by the program, up to
\* `with _log_lock`, lines 27-28
LogException(t) ==
    /\ \E e \in Exceptions, c \in Clock :
          Begin(t, c, "log_exception", e, "call",
                <<ExceptionHeader(Strftime(c)), PrintException(e)>>)
    /\ UNCHANGED <<log_file, log_lock, log_buffer, excepthook, setup_called>>
    /\ UNCHANGED <<parse_vars, res_vars, repo_vars>>

\* lines 13-14 and 29-30 without `with _log_lock:`: the file is opened
\* whoever else has it open
OpenWithoutLock(t) ==
    /\ log_pc[t] = "acquire"
    /\ log_lock' = t
    /\ log_file' = OpenAppend(log_file)
    /\ log_pc' = [log_pc EXCEPT ![t] = "write"]
    /\ UNCHANGED <<log_frame, log_buffer, excepthook, setup_called, now,
                   log_calls>>
    /\ UNCHANGED <<parse_vars, res_vars, repo_vars>>

\* `with _log_lock:` then `with open(LOG_FILE, 'a', ...) as f:`,
\* lines 13-14 and 29-30
AcquireAndOpen(t) ==
    /\ log_pc[t] = "acquire"
    /\ log_lock = "free"
    /\ log_lock' = t
    /\ log_file' = OpenAppend(log_file)
    /\ log_pc' = [log_pc EXCEPT ![t] = "write"]
    /\ UNCHANGED <<log_frame, log_buffer, excepthook, setup_called, now,
                   log_calls>>
    /\ UNCHANGED <<parse_vars, res_vars, repo_vars>>

\* one write to the open file, lines 15, 31, 32: the text goes to the buffer
Write(t) ==
    /\ log_pc[t] = "write"
    /\ log_frame[t].writes # <<>>
    /\ log_buffer' = [log_buffer EXCEPT ![t] =
          Append(@, [call |-> log_frame[t].call,
                     text |-> Head(log_frame[t].writes)])]
    /\ log_frame' = [log_frame EXCEPT ![t].writes = Tail(@)]
    /\ UNCHANGED <<log_file, log_lock, log_pc, excepthook, setup_called, now,
                   log_calls>>
    /\ UNCHANGED <<parse_vars, res_vars, repo_vars>>

\* the buffer of the open file fills up and is written out before the close
Flush(t) ==
    /\ log_pc[t] = "write"
    /\ log_buffer[t] # <<>>
    /\ log_file' = log_file \o log_buffer[t]
    /\ log_buffer' = [log_buffer EXCEPT ![t] = <<>>]
    /\ UNCHANGED <<log_lock, log_pc, log_frame, excepthook, setup_called, now,
                   log_calls>>
    /\ UNCHANGED <<parse_vars, res_vars, repo_vars>>

\* the end of both `with` blocks: the file is flushed and closed, the lock
\* released, and the call returns; when it was the interpreter's call of the
\* hook, the main thread is over
CloseAndRelease(t) ==
    /\ log_pc[t] = "write"
    /\ log_frame[t].writes = <<>>
    /\ log_file' = log_file \o log_buffer[t]
    /\ log_buffer' = [log_buffer EXCEPT ![t] = <<>>]
    /\ log_lock' = "free"
    /\ log_calls' = [log_calls EXCEPT ![log_frame[t].call].status = "returned"]
    /\ log_frame' = [log_frame EXCEPT ![t] = NoFrame]
    /\ log_pc' = [log_pc EXCEPT ![t] =
          IF log_calls[log_frame[t].call].via = "uncaught"
          THEN "exited" ELSE "idle"]
    /\ UNCHANGED <<excepthook, setup_called, now>>
    /\ UNCHANGED <<parse_vars, res_vars, repo_vars>>

\* setup_global_exception_logging that leaves sys.excepthook alone
SetupWithoutHook ==
    /\ setup_called' = TRUE
    /\ UNCHANGED <<excepthook>>
    /\ UNCHANGED <<log_file, log_lock, log_pc, log_frame, log_buffer, now,
                   log_calls>>
    /\ UNCHANGED <<parse_vars, res_vars, repo_vars>>

\* setup_global_exception_logging, lines 34-35
SetupGlobalExceptionLogging ==
    /\ setup_called' = TRUE
    /\ excepthook' = "log_exception"
    /\ UNCHANGED <<log_file, log_lock, log_pc, log_frame, log_buffer, now,
                   log_calls>>
    /\ UNCHANGED <<parse_vars, res_vars, repo_vars>>

\* an exception leaves the main thread uncaught: the interpreter calls
\* sys.excepthook(type, value, traceback); the default hook prints the
\* traceback to stderr and writes nothing to the log file; either way the
\* main thread is over once the hook has returned
Uncaught ==
    /\ \E e \in Exceptions, c \in Clock :
          IF excepthook = "log_exception"
          THEN /\ Begin("main", c, "log_exception", e, "uncaught",
                        <<ExceptionHeader(Strftime(c)), PrintException(e)>>)
          ELSE /\ log_pc["main"] = "idle"
               /\ Len(log_calls) < MaxLogCalls
               /\ now' = c
               /\ log_calls' = Append(log_calls,
                     [op |-> "default_hook", arg |-> e, via |-> "uncaught",
                      timestamp |-> Strftime(c), setup |-> setup_called,
                      after |-> Returned, status |-> "returned"])
               /\ log_pc' = [log_pc EXCEPT !["main"] = "exited"]
               /\ UNCHANGED <<log_frame>>
    /\ UNCHANGED <<log_file, log_lock, log_buffer, excepthook, setup_called>>
    /\ UNCHANGED <<parse_vars, res_vars, repo_vars>>

\* the program ends and is started again: the module is imported afresh,
\* sys.excepthook is the interpreter's own, traceback.log stays on disk
Restart ==
    /\ \A t \in Threads : log_pc[t] \in {"idle", "exited"}
    /\ setup_called \/ log_pc["main"] = "exited"
    /\ setup_called' = FALSE
    /\ excepthook' = "default"
    /\ log_pc' = [t \in Threads |-> "idle"]
    /\ UNCHANGED <<log_file, log_lock, log_frame, log_buffer, now, log_calls>>
    /\ UNCHANGED <<parse_vars, res_vars, repo_vars>>

LogNext ==
    \/ \E t \in Threads : LogMessage(t)
    \/ \E t \in Threads : LogException(t)
    \/ \E t \in Threads : AcquireAndOpen(t)
    \/ \E t \in Threads : Write(t)
    \/ \E t \in Threads : Flush(t)
    \/ \E t \in Threads : CloseAndRelease(t)
    \/ SetupGlobalExceptionLogging
    \/ Uncaught
    \/ Restart

(* ------------------------------------------------------------------ *)
(* Specifications                                                       *)
(* ------------------------------------------------------------------ *)
Init == ParseInit /\ ResolveInit /\ RepoInit /\ LogInit

Next == ParseNext \/ ResolveNext \/ RepoNext \/ LogNext

\* the parts side by side; they share no state
Spec == Init /\ [][Next]_vars

\* the requirement parser alone
SpecParse == Init /\ [][ParseNext]_vars

\* the conflict checker and the package lister alone
SpecResolve == Init /\ [][ResolveNext]_vars

\* the repository manager alone
SpecRepo == Init /\ [][RepoNext]_vars

\* the repository dialog over a manager
SpecDialog == Init /\ [][DialogNext]_vars

\* the logger alone
SpecLog == Init /\ [][LogNext]_vars

(* ------------------------------------------------------------------ *)
(* Claims about parse_requirement (SpecParse)                           *)
(* ------------------------------------------------------------------ *)
\* the outermost call has returned or raised
ParsedInput == parse_pc = "done" /\ phase = 1

\* the input was written as name[extras]specifiers
IsForm == parse_input.form # NoForm

\* the string is empty or whitespace only
IsBlank(t) == \A i \in 1..Len(t) : t[i] \in Whitespace

\* C1: a valid name immediately followed by one or more comma-separated
\* specifiers parses to that name, every (operator, version) pair in the order
\* written, and no extras.
C1_AllSpecifiersCaptured ==
    (/\ ParsedInput
     /\ IsForm
     /\ parse_input.form.extras = <<>>
     /\ parse_input.form.specifiers # <<>>)
    => parse_result = PackageSpec(parse_input.form.name,
                                  parse_input.form.specifiers, <<>>)

\* C2: name[extra1,...]op ver parses to the name before the bracket, the
\* bracket entries in order and the specifier after the bracket.
C2_ExtrasAndSpecifier ==
    (/\ ParsedInput
     /\ IsForm
     /\ parse_input.form.extras # <<>>
     /\ Len(parse_input.form.specifiers) = 1)
    => parse_result = PackageSpec(parse_input.form.name,
                                  parse_input.form.specifiers,
                                  parse_input.form.extras)

\* C3: round trip. For a string of the form name[extras]specifiers (both
\* optional) the call returns a PackageSpec whose str() is a requirement
\* string with the same name, extras and specifiers, and parsing that string
\* again gives an equal PackageSpec.
C3_RoundTrip ==
    /\ (ParsedInput /\ IsForm)
       => /\ parse_result.kind = "PackageSpec"
          /\ PackageSpecStr(parse_result) = FormText(parse_input.form)
    /\ (parse_pc = "done" /\ phase = 2 /\ IsForm)
       => parse_result = first_result

\* C4: an empty or whitespace-only string raises ValueError, and no call ever
\* returns a PackageSpec with an empty name.
C4_NeverEmptyName ==
    /\ (ParsedInput /\ IsBlank(parse_input.text))
       => parse_result.kind = "ValueError"
    /\ parse_result.kind = "PackageSpec" => parse_result.name # <<>>
    /\ first_result.kind = "PackageSpec" => first_result.name # <<>>

\* C4 witness: a whitespace-only string of two characters was rejected.
C4_Witness ==
    /\ ParsedInput
    /\ Len(parse_input.text) >= 2
    /\ IsBlank(parse_input.text)
    /\ parse_result = ValueError("Empty requirement string")

\* C5: when the name segment left after removing extras and specifiers holds
\* a character outside letters, digits, '.', '_' and '-', the call raises
\* ValueError.
C5_InvalidNameRejected ==
    (\E i \in 1..Len(name) : name[i] \notin NameChars)
    => /\ parse_pc = "done"
       /\ parse_result = ValueError("Invalid package name")

\* C5 witness: a name segment with a space and a '!' in it was rejected.
C5_Witness ==
    /\ parse_pc = "done"
    /\ \E i \in 1..Len(name) : name[i] \in Whitespace
    /\ \E i \in 1..Len(name) : name[i] = "!"
    /\ name[1] \in Letters
    /\ parse_result.kind = "ValueError"

NamePattern(t) ==
    /\ Len(t) >= 1
    /\ t[1] \in AlNum
    /\ \A i \in 1..Len(t) : t[i] \in AlNum \cup {".", "_", "-"}

\* C20: a requirement string that is only a name is parsed successfully, to
\* that name with no extras and no specifiers, exactly when the name matches
\* [A-Za-z0-9][A-Za-z0-9._-]*, and the name of every PackageSpec returned
\* matches that pattern.
C20_NamesFollowPattern ==
    /\ ParsedInput =>
          (NamePattern(parse_input.text)
           <=> parse_result = PackageSpec(parse_input.text, <<>>, <<>>))
    /\ parse_result.kind = "PackageSpec" => NamePattern(parse_result.name)

\* the nine operators
NineOperators ==
    { <<"~", "=">>, <<"=", "=">>, <<"!", "=">>, <<"<", "=">>, <<">", "=">>,
      <<"<">>, <<">">>, <<"=", "=", "=">>, <<"!", "=", "=">> }

\* C21: each of the nine operators is recognised as itself: where the call
\* records a specifier for a token written as op followed by v, it records
\* the pair (op, v), so a token that begins with === or !== is never recorded
\* as == or != with a version that starts with '='; and every operator of a
\* returned PackageSpec is one of the nine.
C21_OperatorsRecognised ==
    /\ (/\ ParsedInput
        /\ parse_input.pieces.specifiers # <<>>
        /\ parse_result.kind = "PackageSpec"
        /\ parse_result.specifiers # <<>>)
       => parse_result.specifiers[1] = parse_input.pieces.specifiers[1]
    /\ parse_result.kind = "PackageSpec" =>
          \A k \in 1..Len(parse_result.specifiers) :
             parse_result.specifiers[k][1] \in NineOperators

\* "[" e1,e2,... "]", or nothing for no extras
BracketText(ex) ==
    IF ex = <<>> THEN <<>> ELSE <<"[">> \o Join(ex, <<",">>) \o <<"]">>

\* op1ver1,op2ver2,... in list order, or nothing for no specifiers
SpecifierText(sp) ==
    IF sp = <<>> THEN <<>>
    ELSE Join([i \in 1..Len(sp) |-> sp[i][1] \o sp[i][2]], <<",">>)

\* C22: str() of a PackageSpec is exactly the name, then "[" + the extras
\* joined by "," + "]" if there are extras, then the specifiers as op+version
\* joined by "," in list order if there are specifiers; it depends on the
\* three fields only, and an empty list adds nothing.
C22_RenderingIsExact ==
    first_result.kind = "PackageSpec"
    => rendered = first_result.name
                  \o BracketText(first_result.extras)
                  \o SpecifierText(first_result.specifiers)

\* a PackageSpec with two extras and two specifiers has been rendered
C22_Witness ==
    /\ phase = 3
    /\ Len(first_result.extras) = 2
    /\ Len(first_result.specifiers) = 2
    /\ first_result.specifiers[1] # first_result.specifiers[2]
    /\ Len(rendered) > 0

(* ------------------------------------------------------------------ *)
(* Claims about the conflict checker and the lister (SpecResolve)       *)
(* ------------------------------------------------------------------ *)
\* C6: once check_conflicts / resolve_dependencies has returned or raised,
\* neither temp_requirements.txt nor temp_venv exists, on every exit path.
C6_TemporariesRemoved ==
    res_pc = "done" => (~temp_req_file /\ ~venv_dir)

\* the list subprocess or the parsing of its output failed
ListFailed(run) ==
    \/ run.status # "zero"
    \/ ~run.json_valid
    \/ \E i \in 1..Len(run.entries) :
          ~run.entries[i].has_name \/ ~run.entries[i].has_version

\* C10: get_installed_packages never raises to its caller; on any failure of
\* the list subprocess or of parsing its output it returns an empty map and
\* logs the failure.
C10_ListNeverRaises ==
    listed.kind # "none"
    => /\ listed.kind = "return"
       /\ ListFailed(listed.run)
          => (listed.result = Return(EmptyMap) /\ listed.logged)

\* the list command succeeded with a JSON array of {name, version} objects
ListSucceeded(run) ==
    /\ run.status = "zero"
    /\ run.json_valid
    /\ \A i \in 1..Len(run.entries) :
          run.entries[i].has_name /\ run.entries[i].has_version

\* C11: when the list command succeeds with a JSON array of {name, version}
\* objects, get_installed_packages returns a map whose keys are exactly the
\* lower-cased names listed, each mapped to a version listed for that name;
\* nothing of an earlier call is in it.
C11_MapFromCurrentOutput ==
    (listed.kind # "none" /\ ListSucceeded(listed.run))
    => /\ listed.kind = "return"
       /\ DOMAIN listed.result.value =
             {Lower(listed.run.entries[i].name) : i \in 1..Len(listed.run.entries)}
       /\ \A k \in DOMAIN listed.result.value :
             \E i \in 1..Len(listed.run.entries) :
                /\ Lower(listed.run.entries[i].name) = k
                /\ listed.run.entries[i].version = listed.result.value[k]

\* C12: if the install exits with code zero, check_conflicts returns the empty
\* conflict list and resolve_dependencies returns the installed-package map
\* without raising.
C12_SuccessMeansNoConflicts ==
    (res_pc = "done" /\ install.status = "zero")
    => /\ outcome.kind = "return"
       /\ entry = "check_conflicts" => outcome = Return(<<>>)

\* the steps of a check that remove the temporaries: lines 203-204, and the
\* except clause, lines 214-217
CleanupSteps == {"CLEANUP", "EXCEPT"}

\* the places of the steps in S within the current call
Places(S) == {i \in 1..Len(steps) : steps[i] \in S}

\* C13: every check runs CREATE_ENV, INSTALL, CLEANUP, REPORT in that order:
\* the install is never attempted before the environment exists, the
\* temporary file and directory are gone before any outcome is reported, and
\* no step runs twice within one check.
C13_StepOrder ==
    /\ res_pc = "install" => venv_dir
    /\ \A i \in Places({"INSTALL"}) : \E k \in Places({"CREATE_ENV"}) : k < i
    /\ \A i \in Places(CleanupSteps) : \A k \in Places({"INSTALL"}) : k < i
    /\ \A i \in Places({"REPORT"}) : \E k \in Places(CleanupSteps) : k < i
    /\ res_pc \in {"report", "done"} => (~temp_req_file /\ ~venv_dir)
    /\ Cardinality(Places({"CREATE_ENV"})) <= 1
    /\ Cardinality(Places({"INSTALL"})) <= 1
    /\ Cardinality(Places(CleanupSteps)) <= 1
    /\ Cardinality(Places({"REPORT"})) <= 1

\* C14: when the install fails and its error text does not hold the phrase
\* "Cannot install <pkg> because these package versions have conflicting
\* dependencies", check_conflicts returns an empty conflict list.
C14_UnknownFailureIsEmpty ==
    (/\ res_pc = "done"
     /\ entry = "check_conflicts"
     /\ install.status = "nonzero"
     /\ ~ConflictSearch(install.stderr).matched)
    => outcome = Return(<<>>)

\* C23: when the install fails and its error text holds "Cannot install <pkg>
\* because these package versions have conflicting dependencies",
\* check_conflicts returns exactly one tuple (<pkg>, "multiple", "Version
\* conflict for <pkg>"); the list it returns never has more than one entry.
C23_ConflictReported ==
    /\ (/\ res_pc = "done"
        /\ entry = "check_conflicts"
        /\ install.status = "nonzero"
        /\ install.stderr = ConflictText("a"))
       => outcome = Return(<< <<"a", "multiple",
                                <<"Version", "conflict", "for", "a">> >> >>)
    /\ (res_pc = "done" /\ entry = "check_conflicts" /\ outcome.kind = "return")
       => Len(outcome.value) <= 1

\* C24: every failure inside resolve_dependencies (writing the requirements
\* file, creating the environment, a non-zero install exit, the cleanup)
\* reaches the caller as ValueError and as no other exception type, so
\* check_conflicts always returns a list and never raises.
C24_OnlyValueError ==
    /\ (res_pc = "report" /\ outcome.kind = "raise")
       => outcome.type = "ValueError"
    /\ (res_pc = "done" /\ entry = "resolve_dependencies"
        /\ outcome.kind = "raise")
       => outcome.type = "ValueError"
    /\ (res_pc = "done" /\ entry = "check_conflicts")
       => outcome.kind = "return"

(* ------------------------------------------------------------------ *)
(* Claims about RepositoryManager (SpecRepo)                            *)
(* ------------------------------------------------------------------ *)
\* the names of the repositories flagged as default
Flagged(repos) == {n \in DOMAIN repos : repos[n].is_default}

\* C7: after set_default_repository(name) returns True, exactly one
\* repository has is_default true, and it is the one stored under name.
C7_SetDefaultLeavesOne ==
    (repo_ret.op = "set_default_repository" /\ repo_ret.value = "True")
    => Flagged(repositories) = {repo_ret.name}

\* C7 witness: set_default_repository("a") returned True with three
\* repositories in the collection.
C7_Witness ==
    /\ repo_ret.op = "set_default_repository"
    /\ repo_ret.value = "True"
    /\ repo_ret.name = "a"
    /\ DOMAIN repositories = RepoNames
    /\ Flagged(repositories) = {"a"}

\* C8: in every state reachable by add_repository, remove_repository and
\* set_default_repository calls, exactly one record has is_default true.
C8_AlwaysOneDefault ==
    Cardinality(Flagged(repositories)) = 1

\* C9: remove_repository("pypi") returns False and leaves the collection and
\* the persisted file unchanged.
C9_PypiNeverRemoved ==
    [][(repo_ret'.op = "remove_repository" /\ repo_ret'.name = "pypi")
       => /\ repo_ret'.value = "False"
          /\ repositories' = repositories
          /\ config_file' = config_file]_vars

\* C9 witness: remove_repository("pypi") returned False while other
\* repositories were stored beside pypi.
C9_Witness ==
    /\ repo_ret.op = "remove_repository"
    /\ repo_ret.name = "pypi"
    /\ repo_ret.value = "False"
    /\ "pypi" \in DOMAIN repositories
    /\ Cardinality(DOMAIN repositories) >= 2

\* the fields of one value of repositories.json
PersistedFields == {"name", "url", "username", "is_default"}

\* the repositories in memory, as a reload can give them back
WithoutPasswords(repos) ==
    [n \in DOMAIN repos |-> [repos[n] EXCEPT !.password = None]]

\* C15: no password reaches repositories.json: every value written holds only
\* name, url, username and is_default; a manager loaded from the file has
\* password None in every record; and right after a save that went through,
\* the loaded records equal the ones in memory in every other field.
C15_NoPasswordPersisted ==
    /\ config_file.state = "json" =>
          \A n \in DOMAIN config_file.data :
             DOMAIN config_file.data[n] = PersistedFields
    /\ \A n \in DOMAIN Loaded(config_file) :
          Loaded(config_file)[n].password = None
    /\ repo_ret.save = "ok" =>
          Loaded(config_file) = WithoutPasswords(repositories)

\* a repository with a password has just been saved
C15_Witness ==
    /\ repo_ret.op = "add_repository"
    /\ repo_ret.save = "ok"
    /\ repositories[repo_ret.name].password = "secret"
    /\ repo_ret.name \in DOMAIN config_file.data

\* C16: whatever the sequence of constructions (from a missing, valid or
\* corrupted file), adds, removals and changes of default, a repository
\* named "pypi" is in the collection.
C16_PypiAlwaysPresent == "pypi" \in DOMAIN repositories

\* a manager constructed over a corrupted file, which holds no repository,
\* has put pypi back
C16_Witness ==
    /\ repo_ret.op = "__init__"
    /\ repo_ret.save # "none"
    /\ save_failures = 1
    /\ DOMAIN repositories = {"pypi"}

(* ------------------------------------------------------------------ *)
(* Claims about the logger (SpecLog)                                    *)
(* ------------------------------------------------------------------ *)
\* the places of the log file that hold text of call i
PlacesOf(i) == {p \in 1..Len(log_file) : log_file[p].call = i}

\* the calls of log_info, log_warning and log_error
MessageCalls ==
    {i \in 1..Len(log_calls) :
        log_calls[i].op \in {"log_info", "log_warning", "log_error"}}

\* the level each function is to write
ExpectedLevel(op) ==
    IF op = "log_info" THEN "INFO"
    ELSE IF op = "log_warning" THEN "WARNING" ELSE "ERROR"

\* every call of log_info / log_warning / log_error that has returned has
\* exactly one entry "[timestamp] [LEVEL] message" in the file, no call has
\* more than one, and a call that began after another had returned has its
\* entry further down the file
EntryPerCallInOrder ==
    \A i \in MessageCalls :
       /\ Cardinality(PlacesOf(i)) <= 1
       /\ log_calls[i].status = "returned" =>
             \E p \in PlacesOf(i) :
                log_file[p].text =
                   <<"[", log_calls[i].timestamp, "] [",
                     ExpectedLevel(log_calls[i].op), "] ",
                     log_calls[i].arg.message, "\n">>
       /\ \A j \in log_calls[i].after :
             \A p \in PlacesOf(j), q \in PlacesOf(i) : p < q

\* a step only adds text at the end of the file
AppendOnly ==
    /\ Len(log_file') >= Len(log_file)
    /\ SubSeq(log_file', 1, Len(log_file)) = log_file

\* C17: each call of log_info, log_warning or log_error appends exactly one
\* entry "[timestamp] [LEVEL] message", with LEVEL INFO, WARNING or ERROR
\* respectively, to the end of the log file; entries are in call order, and
\* text written earlier is never removed or altered.
C17_OneEntryPerCallAppended == []EntryPerCallInOrder /\ [][AppendOnly]_vars

\* two calls, one after the other, have both written their entries
C17_Witness ==
    /\ Len(log_file) = 2
    /\ \E i, j \in MessageCalls :
          /\ j \in log_calls[i].after
          /\ log_calls[i].status = "returned"
          /\ log_calls[i].op # log_calls[j].op
          /\ PlacesOf(j) = {1}
          /\ PlacesOf(i) = {2}

\* the calls that write to the log file
WritingCalls ==
    {i \in 1..Len(log_calls) : log_calls[i].op # "default_hook"}

\* the pieces of text a call is to leave in the file, in order
EntryOf(c) ==
    IF c.op = "log_exception"
    THEN << <<"\n[", c.timestamp, "] [ERROR] ", "Uncaught exception:", "\n">>,
            <<"Traceback (most recent call last):\n", c.arg.type, ": ",
              c.arg.message, "\n">> >>
    ELSE << <<"[", c.timestamp, "] [", ExpectedLevel(c.op), "] ",
              c.arg.message, "\n">> >>

\* the text of call i lies in one run of the file, nothing of another call
\* inside it
Contiguous(i) ==
    \A p, r \in PlacesOf(i) : \A q \in p..r : q \in PlacesOf(i)

\* the file holds the whole entry of call i, its pieces in order
Whole(i) ==
    /\ Cardinality(PlacesOf(i)) = Len(EntryOf(log_calls[i]))
    /\ \A k \in 1..Len(EntryOf(log_calls[i])) :
          \E p \in PlacesOf(i) :
             /\ Cardinality({q \in PlacesOf(i) : q < p}) = k - 1
             /\ log_file[p].text = EntryOf(log_calls[i])[k]

\* two calls ran at the same time: neither began after the other returned
Overlapped(i, j) ==
    i # j /\ i \notin log_calls[j].after /\ j \notin log_calls[i].after

\* C30: log writes from several threads are serialised by the module lock:
\* in every interleaving of concurrent log_info / log_warning / log_error /
\* log_exception calls the text of each entry is contiguous in the file (no
\* entry is split by text of another), every call that has returned has its
\* whole entry there, and at most one thread is inside the locked block.
C30_WritesSerialised ==
    /\ \A i \in WritingCalls : Contiguous(i)
    /\ \A i \in WritingCalls \cap Returned : Whole(i)
    /\ Cardinality({t \in Threads : log_pc[t] = "write"}) <= 1

\* a log_exception call and a log_info call ran at the same time on two
\* threads; the one that began second took the lock first, and both
\* entries are in the file
C30_Witness ==
    /\ Len(log_calls) = 2
    /\ Returned = {1, 2}
    /\ Overlapped(1, 2)
    /\ log_calls[1].op = "log_exception"
    /\ log_calls[2].op = "log_info"
    /\ PlacesOf(2) = {1}
    /\ PlacesOf(1) = {2, 3}

\* the calls of log_exception, by the program or by the interpreter
ExceptionCalls ==
    {i \in 1..Len(log_calls) : log_calls[i].op = "log_exception"}

\* the pieces a, b, c stand next to each other in text
HasPieces(text, a, b, c) ==
    \E k \in 1..(Len(text) - 2) :
       text[k] = a /\ text[k + 1] = b /\ text[k + 2] = c

\* C18: once setup_global_exception_logging has been called, every uncaught
\* exception is handled by log_exception; and every log_exception call,
\* direct or through the hook, appends an "Uncaught exception:" header
\* followed by the traceback text with the exception's type and message.
C18_UncaughtExceptionsLogged ==
    /\ \A i \in 1..Len(log_calls) :
          (log_calls[i].via = "uncaught" /\ log_calls[i].setup)
          => log_calls[i].op = "log_exception"
    /\ \A i \in ExceptionCalls :
          log_calls[i].status = "returned" =>
             \E p \in 1..(Len(log_file) - 1) :
                /\ PlacesOf(i) = {p, p + 1}
                /\ \E k \in 1..Len(log_file[p].text) :
                      log_file[p].text[k] = "Uncaught exception:"
                /\ HasPieces(log_file[p + 1].text, log_calls[i].arg.type,
                             ": ", log_calls[i].arg.message)

\* an uncaught exception after the setup has been written to the file
C18_Witness ==
    \E i \in ExceptionCalls :
       /\ log_calls[i].via = "uncaught"
       /\ log_calls[i].setup
       /\ log_calls[i].status = "returned"
       /\ Cardinality(PlacesOf(i)) = 2

\* the argument of the parse_requirement call that is running or has returned
CallText == IF phase = 2 THEN rendered ELSE parse_input.text

\* the matches removed so far and what is left fit in the argument
LoopBounded ==
    phase \in {1, 2} => iterations + Len(requirement) <= Len(CallText)

\* a pass of the loop that finds a match leaves a strictly shorter string
LoopShortens ==
    (parse_pc = "loop" /\ parse_pc' = "loop")
        => /\ iterations' = iterations + 1
           /\ Len(specifiers') = Len(specifiers) + 1
           /\ Len(requirement') < Len(requirement)

\* C27: the specifier-stripping loop of parse_requirement terminates for
\* every input: each pass removes a non-empty match, so the remaining
\* string gets strictly shorter, the passes that found a match number at
\* most the length of the input, so no run stays in the loop.
C27_LoopTerminates ==
    /\ []LoopBounded
    /\ [][LoopShortens]_vars

\* the loop was left after a pass that found a match and removed it from
\* in front of the name
C27_Witness ==
    /\ parse_pc = "validate"
    /\ phase = 1
    /\ iterations = 1
    /\ Len(requirement) > 0
    /\ Len(requirement) < Len(parse_input.text)

\* the window closed although the handler that ran was _on_save
ClosedBySave == ~dialog'.open /\ dialog'.handler = "_on_save"

\* C26 (parse_requirement): a call that fails hands back the exception and
\* nothing else: no name, specifiers or extras reach the caller.
ParseFailureReturnsNothing ==
    (parse_pc = "done" /\ phase \in {1, 2} /\ parse_result.kind # "PackageSpec")
        => /\ parse_result.kind = "ValueError"
           /\ DOMAIN parse_result = {"kind", "msg"}

\* C26: when _on_save runs while the name or the URL entry is empty or
\* whitespace only, the on_save callback is not invoked (no add_repository
\* call is made), the dialog's repository object is not replaced, the
\* manager's collection and repositories.json stay as they were and the
\* window stays open; a failed parse_requirement returns no PackageSpec.
C26_ValidationErrorChangesNothing ==
    /\ [][(/\ dialog.open
           /\ IsBlank(dialog.name_var) \/ IsBlank(dialog.url_var)
           /\ dialog'.handler = "_on_save")
          => /\ dialog'.open
             /\ dialog'.repository = dialog.repository
             /\ dialog'.shown \in {"name_required", "url_required"}
             /\ UNCHANGED <<repositories, config_file, repo_ret,
                            save_failures>>]_vars
    /\ []ParseFailureReturnsNothing

\* _on_save has run over a whitespace-only URL in the dialog that edits a
\* stored repository
C26_Witness ==
    /\ dialog.open
    /\ dialog.handler = "_on_save"
    /\ dialog.shown = "url_required"
    /\ dialog.url_var = <<" ">>
    /\ dialog.name_var = <<" ", "a">>
    /\ dialog.repository.name = "pypi"

\* C28: set_default_repository with a name that is not in the collection
\* returns False and changes nothing: no is_default flag is cleared or set
\* and repositories.json is not written.
C28_UnknownDefaultChangesNothing ==
    [][(/\ repo_ret'.op = "set_default_repository"
        /\ repo_ret'.name \notin DOMAIN repositories)
       => /\ repo_ret'.value = "False"
          /\ repo_ret'.save = "none"
          /\ UNCHANGED <<repositories, config_file, save_failures>>]_vars

\* set_default_repository("a") has returned False on a collection without
\* "a" whose default is "b"
C28_Witness ==
    /\ repo_ret.op = "set_default_repository"
    /\ repo_ret.name = "a"
    /\ repo_ret.value = "False"
    /\ DOMAIN repositories = {"pypi", "b"}
    /\ repositories["b"].is_default
    /\ ~repositories["pypi"].is_default

\* the collection after the step is the one before it without the record n
DeletedExactly(n) ==
    /\ DOMAIN repositories' = DOMAIN repositories \ {n}
    /\ \A m \in DOMAIN repositories' : repositories'[m] = repositories[m]

\* C29: remove_repository(name) for a name in the collection other than
\* "pypi" returns True, deletes exactly that record and leaves every other
\* record as it was; for a name not in the collection it returns False and
\* leaves the collection unchanged; after either call
\* get_default_repository returns a repository, never None.
C29_RemoveDeletesExactlyOne ==
    [][repo_ret'.op = "remove_repository"
       => /\ (repo_ret'.name \in DOMAIN repositories
                  /\ repo_ret'.name # "pypi")
                 => /\ repo_ret'.value = "True"
                    /\ DeletedExactly(repo_ret'.name)
          /\ repo_ret'.name \notin DOMAIN repositories
                 => /\ repo_ret'.value = "False"
                    /\ repositories' = repositories
          /\ None \notin GetDefaultRepository(repositories')]_vars

\* C25: file failures during persistence never leave RepositoryManager as an
\* exception: a manager constructed over an unreadable or corrupted
\* repositories.json holds the pypi entry alone, and a failure to create the
\* configuration directory or to write the file during add_repository,
\* remove_repository or set_default_repository is swallowed.
C25_FileFailuresSwallowed ==
    /\ repo_ret.raised = NoOutcome
    /\ (repo_ret.op = "__init__" /\ repo_ret.save # "none")
       => DOMAIN repositories = {"pypi"}

====
